---- MODULE Spec2Model ----
(***************************************************************************)
(* Model of src/01pacotes/desafio.py: the in-memory banking console.       *)
(* One action per iteration of main()'s loop (one menu option with the     *)
(* whole handler it dispatches to), plus the passing of calendar days.     *)
(***************************************************************************)
EXTENDS Integers, Sequences, FiniteSets, TLC

VARIABLES clientes, contas, today, pc, entrada, saida, log, linha

vars == <<clientes, contas, today, pc, entrada, saida, log, linha>>

(* ------------------------------ bounds -------------------------------- *)
\* last calendar day of the session (days are numbered 0..MaxDay)
MaxDay == 2
\* most accounts the session opens
MaxContas == 2
\* most lines the session appends to log.txt
MaxLog == 7

\* tax ids typed at the "CPF:" prompts
CPFS == {"111", "222"}
\* lines typed at the "Valor do deposito:" prompt
EntradasDeposito == {"-1", "1000", "abc"}
\* lines typed at the "Valor do saque:" prompt
EntradasSaque == {"0", "200", "500", "501", "1500", "abc"}

(* ------------------------- program constants -------------------------- *)
LIMITE == 500
LIMITE_SAQUES == 3
LIMITE_DIARIO == 2

(* --------------------------- conversions ------------------------------ *)
\* float(input(...)) on the lines above; a line outside the domain raises ValueError
float == ("-1" :> (0 - 1)) @@ ("200" :> 200) @@ ("0" :> 0) @@ ("500" :> 500) @@ ("501" :> 501)
         @@ ("1000" :> 1000) @@ ("1500" :> 1500)

\* datetime.now().strftime("%d-%m-%Y ..."): day n of the session as <<dd, mm, yyyy>>;
\* the session starts on 30-12-2025, so the days cross a month and a year end
strftime(n) == IF 30 + n <= 31 THEN <<30 + n, 12, 2025>> ELSE <<n - 1, 1, 2026>>

\* datetime.strptime(data, ...).date(): the day a formatted date denotes
strptime(data) == IF data[3] = 2025 THEN data[1] - 30 ELSE data[1] + 1

(* ------------------------------ decorator ---------------------------- *)
\* the wrapper opening log.txt with mode "w" instead of "a"
log_transacao_w(arquivo) == 1

\* log_transacao's wrapper after func returned: one more line appended to log.txt,
\* which is modelled by the number of its lines
log_transacao(arquivo) == arquivo + 1

\* repr of the list clientes (PessoaFisica.__repr__ shows the cpf) and of the list
\* contas (ContaCorrente.__repr__ shows agencia, numero and the owner)
repr_clientes(cs) == [i \in 1..Len(cs) |-> cs[i].cpf]
repr_contas(ks) == [i \in 1..Len(ks) |-> <<"0001", ks[i].numero, ks[i].cliente>>]

\* the line the wrapper writes: the name of func, its positional arguments as
\* they print when the line is formatted, and the value func returned
linha_do_log(func, args) == <<func, args, "None">>

(* ------------------------------ Historico ----------------------------- *)
\* Historico.adicionar_transacao inserting the entry at the head of the list
adicionar_transacao_no_inicio(transacoes, tipo, valor, agora) ==
    <<[tipo |-> tipo, valor |-> valor, data |-> strftime(agora)]>> \o transacoes

adicionar_transacao(transacoes, tipo, valor, agora) ==
    Append(transacoes, [tipo |-> tipo, valor |-> valor, data |-> strftime(agora)])

\* Historico.transacoes_do_dia returning every entry, whatever its date
transacoes_do_dia_todas(transacoes, hoje) == transacoes

transacoes_do_dia(transacoes, hoje) ==
    LET DoDia(t) == strptime(t.data) = hoje IN SelectSeq(transacoes, DoDia)

gerar_relatorio(transacoes) ==
    LET Todas(t) == TRUE IN SelectSeq(transacoes, Todas)

(* -------------------------------- Conta ------------------------------- *)
\* a freshly constructed ContaCorrente
ContaCorrente(numero, cliente) ==
    [numero |-> numero, cliente |-> cliente, saldo |-> 0, transacoes |-> <<>>,
     limite |-> LIMITE, limite_saques |-> LIMITE_SAQUES]

\* Conta.sacar without the insufficient-balance check
Conta_sacar_sem_saldo(conta, valor) ==
    IF valor <= 0
    THEN [ok |-> FALSE, saldo |-> conta.saldo, msg |-> "Valor invalido!"]
    ELSE [ok |-> TRUE, saldo |-> conta.saldo - valor,
          msg |-> "Saque realizado com sucesso!"]

\* Conta.sacar printing "Saldo insuficiente!" without returning
Conta_sacar_sem_return(conta, valor) ==
    IF valor <= 0
    THEN [ok |-> FALSE, saldo |-> conta.saldo, msg |-> "Valor invalido!"]
    ELSE [ok |-> TRUE, saldo |-> conta.saldo - valor,
          msg |-> IF valor > conta.saldo THEN "Saldo insuficiente!"
                  ELSE "Saque realizado com sucesso!"]

\* Conta.sacar: the return value, the balance afterwards, the message printed
Conta_sacar(conta, valor) ==
    IF valor <= 0
    THEN [ok |-> FALSE, saldo |-> conta.saldo, msg |-> "Valor invalido!"]
    ELSE IF valor > conta.saldo
    THEN [ok |-> FALSE, saldo |-> conta.saldo, msg |-> "Saldo insuficiente!"]
    ELSE [ok |-> TRUE, saldo |-> conta.saldo - valor,
          msg |-> "Saque realizado com sucesso!"]

\* Conta.depositar assigning the amount instead of adding it
Conta_depositar_atribui(conta, valor) ==
    IF valor <= 0
    THEN [ok |-> FALSE, saldo |-> conta.saldo, msg |-> "Valor invalido!"]
    ELSE [ok |-> TRUE, saldo |-> valor,
          msg |-> "Deposito realizado com sucesso!"]

\* Conta.depositar without the check of the amount
Conta_depositar_sem_validacao(conta, valor) ==
    [ok |-> TRUE, saldo |-> conta.saldo + valor,
     msg |-> "Deposito realizado com sucesso!"]

Conta_depositar(conta, valor) ==
    IF valor <= 0
    THEN [ok |-> FALSE, saldo |-> conta.saldo, msg |-> "Valor invalido!"]
    ELSE [ok |-> TRUE, saldo |-> conta.saldo + valor,
          msg |-> "Deposito realizado com sucesso!"]

\* ContaCorrente.sacar without the per-operation limit check
ContaCorrente_sacar_sem_limite(conta, valor) ==
    LET EhSaque(t) == t.tipo = "Saque"
        numero_saques == Len(SelectSeq(conta.transacoes, EhSaque))
    IN  IF numero_saques >= conta.limite_saques
        THEN [ok |-> FALSE, saldo |-> conta.saldo, msg |-> "Limite de saques excedido!"]
        ELSE Conta_sacar(conta, valor)

\* ContaCorrente.sacar comparing the number of withdrawals with > instead of >=
ContaCorrente_sacar_quarto(conta, valor) ==
    LET EhSaque(t) == t.tipo = "Saque"
        numero_saques == Len(SelectSeq(conta.transacoes, EhSaque))
    IN  IF valor > conta.limite
        THEN [ok |-> FALSE, saldo |-> conta.saldo, msg |-> "Limite de saque excedido!"]
        ELSE IF numero_saques > conta.limite_saques
        THEN [ok |-> FALSE, saldo |-> conta.saldo, msg |-> "Limite de saques excedido!"]
        ELSE Conta_sacar(conta, valor)

\* ContaCorrente.sacar comparing the amount with >= instead of >
ContaCorrente_sacar_limite_estrito(conta, valor) ==
    LET EhSaque(t) == t.tipo = "Saque"
        numero_saques == Len(SelectSeq(conta.transacoes, EhSaque))
    IN  IF valor >= conta.limite
        THEN [ok |-> FALSE, saldo |-> conta.saldo, msg |-> "Limite de saque excedido!"]
        ELSE IF numero_saques >= conta.limite_saques
        THEN [ok |-> FALSE, saldo |-> conta.saldo, msg |-> "Limite de saques excedido!"]
        ELSE Conta_sacar(conta, valor)

\* ContaCorrente.sacar validating the amount before its own two checks
ContaCorrente_sacar_valor_primeiro(conta, valor) ==
    LET EhSaque(t) == t.tipo = "Saque"
        numero_saques == Len(SelectSeq(conta.transacoes, EhSaque))
    IN  IF valor <= 0
        THEN [ok |-> FALSE, saldo |-> conta.saldo, msg |-> "Valor invalido!"]
        ELSE IF valor > conta.limite
        THEN [ok |-> FALSE, saldo |-> conta.saldo, msg |-> "Limite de saque excedido!"]
        ELSE IF numero_saques >= conta.limite_saques
        THEN [ok |-> FALSE, saldo |-> conta.saldo, msg |-> "Limite de saques excedido!"]
        ELSE Conta_sacar(conta, valor)

ContaCorrente_sacar(conta, valor) ==
    LET EhSaque(t) == t.tipo = "Saque"
        numero_saques == Len(SelectSeq(conta.transacoes, EhSaque))
    IN  IF valor > conta.limite
        THEN [ok |-> FALSE, saldo |-> conta.saldo, msg |-> "Limite de saque excedido!"]
        ELSE IF numero_saques >= conta.limite_saques
        THEN [ok |-> FALSE, saldo |-> conta.saldo, msg |-> "Limite de saques excedido!"]
        ELSE Conta_sacar(conta, valor)

(* ------------------------------ Transacao ----------------------------- *)
\* Saque.registrar recording the withdrawal whatever conta.sacar returned
Saque_registrar_sempre(conta, valor, agora) ==
    LET r == ContaCorrente_sacar(conta, valor)
    IN  [conta |-> [conta EXCEPT !.saldo = r.saldo,
                      !.transacoes = adicionar_transacao(@, "Saque", valor, agora)],
         msg |-> r.msg, registrou |-> TRUE]

\* Saque.registrar / Deposito.registrar: the account afterwards and the message;
\* agora is the day the clock shows when the entry is stamped
Saque_registrar(conta, valor, agora) ==
    LET r == ContaCorrente_sacar(conta, valor)
    IN  IF r.ok
        THEN [conta |-> [conta EXCEPT !.saldo = r.saldo,
                           !.transacoes = adicionar_transacao(@, "Saque", valor, agora)],
              msg |-> r.msg, registrou |-> TRUE]
        ELSE [conta |-> [conta EXCEPT !.saldo = r.saldo], msg |-> r.msg,
              registrou |-> FALSE]

\* Deposito.registrar recording the deposit whatever conta.depositar returned
Deposito_registrar_sempre(conta, valor, agora) ==
    LET r == Conta_depositar(conta, valor)
    IN  [conta |-> [conta EXCEPT !.saldo = r.saldo,
                      !.transacoes = adicionar_transacao(@, "Deposito", valor, agora)],
         msg |-> r.msg, registrou |-> TRUE]

Deposito_registrar(conta, valor, agora) ==
    LET r == Conta_depositar(conta, valor)
    IN  IF r.ok
        THEN [conta |-> [conta EXCEPT !.saldo = r.saldo,
                           !.transacoes = adicionar_transacao(@, "Deposito", valor, agora)],
              msg |-> r.msg, registrou |-> TRUE]
        ELSE [conta |-> [conta EXCEPT !.saldo = r.saldo], msg |-> r.msg,
              registrou |-> FALSE]

registrar(tipo, conta, valor, agora) ==
    IF tipo = "Saque" THEN Saque_registrar(conta, valor, agora)
    ELSE Deposito_registrar(conta, valor, agora)

(* ------------------------------- Cliente ------------------------------ *)
\* Cliente.realizar_transacao comparing the day's count with > instead of >=
realizar_transacao_terceira(conta, tipo, valor, hoje, agora) ==
    IF Len(transacoes_do_dia(conta.transacoes, hoje)) > LIMITE_DIARIO
    THEN [conta |-> conta, msg |-> "Limite diario de transacoes excedido!",
          registrou |-> FALSE]
    ELSE registrar(tipo, conta, valor, agora)

\* Cliente.realizar_transacao: hoje is the day read by transacoes_do_dia,
\* agora the day read later by adicionar_transacao
realizar_transacao(conta, tipo, valor, hoje, agora) ==
    IF Len(transacoes_do_dia(conta.transacoes, hoje)) >= LIMITE_DIARIO
    THEN [conta |-> conta, msg |-> "Limite diario de transacoes excedido!",
          registrou |-> FALSE]
    ELSE registrar(tipo, conta, valor, agora)

(* -------------------------- session functions ------------------------- *)
\* filtrar_cliente returning the first customer of the list without comparing the cpf
filtrar_cliente_primeiro(cpf, cs) == IF Len(cs) > 0 THEN 1 ELSE 0

\* filtrar_cliente never finding the customer
filtrar_cliente_nunca(cpf, cs) == 0

\* filtrar_cliente: index in clientes of the first customer with this cpf, 0 for None
filtrar_cliente(cpf, cs) ==
    IF \E i \in 1..Len(cs) : cs[i].cpf = cpf
    THEN CHOOSE i \in 1..Len(cs) :
            cs[i].cpf = cpf /\ \A j \in 1..(i - 1) : cs[j].cpf # cpf
    ELSE 0

\* recuperar_conta_cliente returning the customer's last account
recuperar_conta_cliente_ultima(cliente) ==
    IF cliente.contas = <<>> THEN 0 ELSE cliente.contas[Len(cliente.contas)]

\* Cliente.adicionar_conta not keeping the account
adicionar_conta_esquece(cliente, conta) == cliente

\* Cliente.adicionar_conta: the customer with the account (its index in contas) appended
adicionar_conta(cliente, conta) == [cliente EXCEPT !.contas = Append(@, conta)]

\* recuperar_conta_cliente: index in contas of the customer's first account, 0 for None
recuperar_conta_cliente(cliente) ==
    IF cliente.contas = <<>> THEN 0 ELSE cliente.contas[1]

\* the days the clock can show at a later read within the same handler
Depois(hoje) == {d \in {hoje, hoje + 1} : d <= MaxDay}

Init ==
    /\ clientes = <<>>
    /\ contas = <<>>
    /\ today = 0
    /\ pc = "menu"
    /\ entrada = <<>>
    /\ saida = <<>>
    /\ log = 0
    /\ linha = <<>>

\* shared body of depositar(clientes) and sacar(clientes)
Movimentar(opcao, tipo, cpf, digitado) ==
    LET c == filtrar_cliente(cpf, clientes) IN
    /\ pc = "menu"
    /\ log < MaxLog
    /\ IF c = 0
       THEN /\ entrada' = <<opcao, cpf>>
            /\ saida' = <<"Cliente nao encontrado!">>
            /\ log' = log_transacao(log)
            /\ UNCHANGED <<clientes, contas, today, pc>>
            /\ linha' = linha_do_log(IF opcao = "d" THEN "depositar" ELSE "sacar",
                                     <<repr_clientes(clientes')>>)
       ELSE IF digitado \notin DOMAIN float
       THEN /\ entrada' = <<opcao, cpf, digitado>>
            /\ saida' = <<"ValueError">>
            /\ pc' = "ValueError"
            /\ UNCHANGED <<clientes, contas, today, log, linha>>
       ELSE LET valor == float[digitado]
                k == recuperar_conta_cliente(clientes[c])
            IN  /\ entrada' = <<opcao, cpf, digitado>>
                /\ log' = log_transacao(log)
                /\ IF k = 0
                   THEN /\ saida' = <<"Cliente nao possui conta!">>
                        /\ UNCHANGED <<clientes, contas, today, pc>>
                   ELSE \E agora \in Depois(today) :
                          LET r == realizar_transacao(contas[k], tipo, valor, today, agora)
                          IN  /\ contas' = [contas EXCEPT ![k] = r.conta]
                              /\ saida' = <<r.msg>>
                              /\ today' = IF r.registrou THEN agora ELSE today
                              /\ UNCHANGED <<clientes, pc>>
                /\ linha' = linha_do_log(IF opcao = "d" THEN "depositar" ELSE "sacar",
                                         <<repr_clientes(clientes')>>)

depositar == \E cpf \in CPFS, digitado \in EntradasDeposito :
                Movimentar("d", "Deposito", cpf, digitado)

sacar == \E cpf \in CPFS, digitado \in EntradasSaque :
                Movimentar("s", "Saque", cpf, digitado)

exibir_extrato == \E cpf \in CPFS :
    LET c == filtrar_cliente(cpf, clientes) IN
    /\ pc = "menu"
    /\ log < MaxLog
    /\ log' = log_transacao(log)
    /\ entrada' = <<"e", cpf>>
    /\ saida' = IF c = 0 THEN <<"Cliente nao encontrado!">>
                ELSE IF recuperar_conta_cliente(clientes[c]) = 0
                THEN <<"Cliente nao possui conta!">>
                ELSE LET conta == contas[recuperar_conta_cliente(clientes[c])]
                     IN  <<"EXTRATO", gerar_relatorio(conta.transacoes), conta.saldo>>
    /\ UNCHANGED <<clientes, contas, today, pc>>
    /\ linha' = linha_do_log("exibir_extrato", <<repr_clientes(clientes')>>)

criar_cliente == \E cpf \in CPFS :
    /\ pc = "menu"
    /\ log < MaxLog
    /\ log' = log_transacao(log)
    /\ IF filtrar_cliente(cpf, clientes) # 0
       THEN /\ entrada' = <<"nu", cpf>>
            /\ saida' = <<"Cliente ja existe!">>
            /\ UNCHANGED clientes
       ELSE /\ entrada' = <<"nu", cpf, "nome", "data_nascimento", "endereco">>
            /\ clientes' = Append(clientes, [cpf |-> cpf, contas |-> <<>>])
            /\ saida' = <<"Cliente criado com sucesso!">>
    /\ UNCHANGED <<contas, today, pc>>
    /\ linha' = linha_do_log("criar_cliente", <<repr_clientes(clientes')>>)

\* main passing len(contas) as the number of the new account
proximo_numero_sem_mais_um(ks) == Len(ks)

\* the number main passes to criar_conta
proximo_numero(ks) == Len(ks) + 1

criar_conta == \E cpf \in CPFS :
    LET c == filtrar_cliente(cpf, clientes)
        numero == proximo_numero(contas)
    IN
    /\ pc = "menu"
    /\ Len(contas) < MaxContas
    /\ log < MaxLog
    /\ log' = log_transacao(log)
    /\ entrada' = <<"nc", cpf>>
    /\ IF c = 0
       THEN /\ saida' = <<"Cliente nao encontrado!">>
            /\ UNCHANGED <<clientes, contas>>
       ELSE /\ contas' = Append(contas, ContaCorrente(numero, cpf))
            /\ clientes' = [clientes EXCEPT ![c] = adicionar_conta(@, Len(contas) + 1)]
            /\ saida' = <<"Conta criada com sucesso!">>
    /\ UNCHANGED <<today, pc>>
    /\ linha' = linha_do_log("criar_conta",
                             <<numero, repr_clientes(clientes'), repr_contas(contas')>>)

listar_contas ==
    /\ pc = "menu"
    /\ entrada' = <<"lc">>
    /\ saida' = <<"CONTAS", [i \in 1..Len(contas) |->
                     <<contas[i].numero, contas[i].cliente, contas[i].saldo>>]>>
    /\ UNCHANGED <<clientes, contas, today, pc, log, linha>>

sair ==
    /\ pc = "menu"
    /\ entrada' = <<"q">>
    /\ saida' = <<>>
    /\ pc' = "fim"
    /\ UNCHANGED <<clientes, contas, today, log, linha>>

\* main's else branch leaving the loop
opcao_invalida_encerra ==
    /\ pc = "menu"
    /\ entrada' = <<"x">>
    /\ saida' = <<"Opcao invalida!">>
    /\ pc' = "fim"
    /\ UNCHANGED <<clientes, contas, today, log, linha>>

opcao_invalida ==
    /\ pc = "menu"
    /\ entrada' = <<"x">>
    /\ saida' = <<"Opcao invalida!">>
    /\ UNCHANGED <<clientes, contas, today, pc, log, linha>>

\* midnight passes while the menu waits for input
virar_dia ==
    /\ pc = "menu"
    /\ today < MaxDay
    /\ today' = today + 1
    /\ UNCHANGED <<clientes, contas, pc, entrada, saida, log, linha>>

Next ==
    \/ depositar
    \/ sacar
    \/ exibir_extrato
    \/ criar_cliente
    \/ criar_conta
    \/ listar_contas
    \/ sair
    \/ opcao_invalida
    \/ virar_dia

Spec == Init /\ [][Next]_vars

(* ====================================================================== *)
(*                              properties                                *)
(* ====================================================================== *)

\* the step is a completed call of the handler of menu option op
Chamada(op) == log' = log + 1 /\ entrada'[1] = op

\* the cpf typed in the step is the identifier of no registered customer
Desconhecido(cpf) == \A i \in 1..Len(clientes) : clientes[i].cpf # cpf

\* the customer the typed cpf names (the first with it), and that customer's first account
ClienteDe(cpf) == CHOOSE i \in 1..Len(clientes) :
                     clientes[i].cpf = cpf /\ \A j \in 1..(i - 1) : clientes[j].cpf # cpf
TemConta(cpf) == ~Desconhecido(cpf) /\ Len(clientes[ClienteDe(cpf)].contas) > 0
ContaDe(cpf) == clientes[ClienteDe(cpf)].contas[1]

\* the step is a deposit (op = "d") or withdrawal (op = "s") request that reaches
\* Cliente.realizar_transacao: customer found, amount parsed, account found
Pedido(op) ==
    /\ Chamada(op)
    /\ Len(entrada') = 3
    /\ TemConta(entrada'[2])

\* the amount of the request and the account it is made on, before the step
ValorPedido == float[entrada'[3]]
ContaPedido == contas[ContaDe(entrada'[2])]
ContaPedidoDepois == contas'[ContaDe(entrada'[2])]

RECURSIVE Soma(_, _)
\* sum of the amounts of the entries of kind tipo in a ledger
Soma(transacoes, tipo) ==
    IF transacoes = <<>> THEN 0
    ELSE (IF Head(transacoes).tipo = tipo THEN Head(transacoes).valor ELSE 0)
         + Soma(Tail(transacoes), tipo)

\* number of entries of kind tipo in a ledger
Quantos(transacoes, tipo) ==
    Cardinality({i \in 1..Len(transacoes) : transacoes[i].tipo = tipo})

\* number of entries of a ledger stamped with the date of day dia
NoDia(transacoes, dia) ==
    Cardinality({i \in 1..Len(transacoes) : transacoes[i].data = strftime(dia)})

Acrescentou(antes, depois, tipo, valor) ==
    /\ Len(depois) = Len(antes) + 1
    /\ SubSeq(depois, 1, Len(antes)) = antes
    /\ depois[Len(depois)].tipo = tipo
    /\ depois[Len(depois)].valor = valor

\* the step is a request that Cliente.realizar_transacao hands to Transacao.registrar
Registra(op) == Pedido(op) /\ NoDia(ContaPedido.transacoes, today) < LIMITE_DIARIO

\* what a step of the session must satisfy for C3
C3_Step ==
    /\ Registra("s") =>
          LET ok == ContaCorrente_sacar(ContaPedido, ValorPedido).ok
          IN  /\ ok <=> Acrescentou(ContaPedido.transacoes, ContaPedidoDepois.transacoes,
                                     "Saque", ValorPedido)
              /\ ~ok => contas' = contas
    /\ Registra("d") =>
          LET ok == Conta_depositar(ContaPedido, ValorPedido).ok
          IN  /\ ok <=> Acrescentou(ContaPedido.transacoes, ContaPedidoDepois.transacoes,
                                     "Deposito", ValorPedido)
              /\ ~ok => contas' = contas

\* C3: Saque.registrar and Deposito.registrar append an entry to the account's
\* ledger if and only if the account's sacar / depositar call returned True;
\* when it returned False, ledger and balance are unchanged.
C3_RegistraSeSucesso == [][C3_Step]_vars

\* a withdrawal of 0 was handed to Saque.registrar on an account with a ledger
\* and a balance, and failed
C3_Witness ==
    /\ Len(entrada) = 3 /\ entrada[1] = "s" /\ entrada[3] = "0"
    /\ saida = <<"Valor invalido!">>
    /\ TemConta(entrada[2])
    /\ contas[ContaDe(entrada[2])].saldo > 0
    /\ Len(contas[ContaDe(entrada[2])].transacoes) > 0

\* what a step of the session must satisfy for C4
C4_Step == (Pedido("s") /\ ValorPedido > ContaPedido.saldo) => contas' = contas

\* C4: a withdrawal request whose amount exceeds the account's current balance
\* leaves the balance unchanged and appends no ledger entry.
C4_SaqueAcimaDoSaldo == [][C4_Step]_vars

\* a withdrawal within the limit was refused for lack of balance on an
\* account that holds some money
C4_Witness ==
    /\ Len(entrada) = 3 /\ entrada[1] = "s"
    /\ saida = <<"Saldo insuficiente!">>
    /\ TemConta(entrada[2])
    /\ contas[ContaDe(entrada[2])].saldo > 0
    /\ float[entrada[3]] > contas[ContaDe(entrada[2])].saldo

\* what a step of the session must satisfy for C5
C5_Step ==
    (Pedido("s") /\ ContaPedido.limite = 500 /\ ValorPedido > 500) =>
        /\ contas' = contas
        /\ saida' \in {<<"Limite de saque excedido!">>,
                       <<"Limite diario de transacoes excedido!">>}

\* C5: a checking account with per-operation limit 500 rejects every withdrawal
\* request of more than 500, also with sufficient balance and the cap not
\* reached; balance and ledger are unchanged.
C5_LimitePorSaque == [][C5_Step]_vars

\* 501 was refused on an account holding at least 501, with fewer than 3
\* withdrawals and fewer than 2 entries today
C5_Witness ==
    /\ Len(entrada) = 3 /\ entrada[1] = "s" /\ entrada[3] = "501"
    /\ saida = <<"Limite de saque excedido!">>
    /\ TemConta(entrada[2])
    /\ LET c == contas[ContaDe(entrada[2])]
       IN  /\ c.limite = 500
           /\ c.saldo >= 501
           /\ Quantos(c.transacoes, "Saque") < 3
           /\ NoDia(c.transacoes, today) < 2

\* what a step of the session must satisfy for C6
C6_Step ==
    (Pedido("s") /\ ContaPedido.limite_saques = 3
                 /\ Quantos(ContaPedido.transacoes, "Saque") >= 3) =>
        /\ contas' = contas
        /\ saida' \notin {<<"Saque realizado com sucesso!">>}
C6_Inv == \A i \in 1..Len(contas) :
             contas[i].limite_saques = 3 /\ Quantos(contas[i].transacoes, "Saque") <= 3

\* C6: once three withdrawals are recorded for a checking account with cap 3,
\* every later withdrawal request is rejected with balance and ledger
\* unchanged, on any later date and whatever the balance; the ledger never
\* holds more than 3 Withdrawal entries.
C6_LimiteDeSaques == []C6_Inv /\ [][C6_Step]_vars

\* a 4th withdrawal the balance covers was refused by the cap, on a day after
\* the day of the 3rd one
C6_Witness ==
    /\ Len(entrada) = 3 /\ entrada[1] = "s"
    /\ saida = <<"Limite de saques excedido!">>
    /\ TemConta(entrada[2])
    /\ LET c == contas[ContaDe(entrada[2])]
       IN  /\ Quantos(c.transacoes, "Saque") = 3
           /\ float[entrada[3]] > 0
           /\ float[entrada[3]] <= c.saldo
           /\ NoDia(c.transacoes, today) = 0

\* what a step of the session must satisfy for C7
C7_Step ==
    ((Pedido("d") \/ Pedido("s")) /\ NoDia(ContaPedido.transacoes, today) >= 2) =>
        /\ contas' = contas
        /\ saida' = <<"Limite diario de transacoes excedido!">>

\* C7: when the target account's ledger already has 2 entries dated today,
\* Cliente.realizar_transacao rejects the transaction, Deposit or Withdrawal:
\* it is not applied, and balance and ledger are unchanged.
C7_LimiteDiario == [][C7_Step]_vars

\* a deposit of 1000 was refused as the 3rd transaction of the day
C7_Witness ==
    /\ Len(entrada) = 3 /\ entrada[1] = "d" /\ entrada[3] = "1000"
    /\ saida = <<"Limite diario de transacoes excedido!">>
    /\ TemConta(entrada[2])
    /\ NoDia(contas[ContaDe(entrada[2])].transacoes, today) = 2

\* a new account, and that account after a deposit of 1000 stamped on day dia
Nova(c) == c.saldo = 0 /\ c.transacoes = <<>> /\ c.limite = 500 /\ c.limite_saques = 3
AposDeposito(c, dia) ==
    /\ c.saldo = 1000 /\ c.limite = 500 /\ c.limite_saques = 3
    /\ c.transacoes = <<[tipo |-> "Deposito", valor |-> 1000, data |-> strftime(dia)]>>
\* the ledger holds exactly Deposit 1000 followed by Withdrawal 500, of the same day
DepositoESaque(t) ==
    /\ Len(t) = 2
    /\ t[1].tipo = "Deposito" /\ t[1].valor = 1000
    /\ t[2].tipo = "Saque" /\ t[2].valor = 500
    /\ t[1].data = t[2].data

\* what a step of the session must satisfy for C8
C8_Step ==
    /\ (Pedido("d") /\ entrada'[3] = "1000" /\ Nova(ContaPedido)) =>
          /\ saida' = <<"Deposito realizado com sucesso!">>
          /\ \E dia \in 0..MaxDay : AposDeposito(ContaPedidoDepois, dia)
    /\ (Pedido("s") /\ entrada'[3] = "1500" /\ AposDeposito(ContaPedido, today)) =>
          /\ saida' \in {<<"Limite de saque excedido!">>, <<"Saldo insuficiente!">>}
          /\ contas' = contas
    /\ (Pedido("s") /\ entrada'[3] = "500" /\ AposDeposito(ContaPedido, today)) =>
          /\ saida' = <<"Saque realizado com sucesso!">>
          /\ ContaPedidoDepois.saldo = 500
          /\ Len(ContaPedidoDepois.transacoes) = 2
          /\ Acrescentou(ContaPedido.transacoes, ContaPedidoDepois.transacoes, "Saque", 500)
    /\ (Chamada("e") /\ TemConta(entrada'[2])
           /\ DepositoESaque(contas[ContaDe(entrada'[2])].transacoes)) =>
          /\ saida' = <<"EXTRATO", contas[ContaDe(entrada'[2])].transacoes,
                         contas[ContaDe(entrada'[2])].saldo>>
          /\ contas[ContaDe(entrada'[2])].saldo = 500

\* C8: on a new checking account, deposit 1000 succeeds (balance 1000), then
\* on the same day withdraw 1500 fails (balance 1000) and withdraw 500 succeeds
\* (balance 500); the ledger, and the statement, then hold exactly Deposit 1000
\* followed by Withdrawal 500.
C8_Cenario == [][C8_Step]_vars

\* the statement printed at the end of the scenario: two entries of one day,
\* Deposit 1000 and Withdrawal 500, and balance 500
C8_Witness ==
    /\ Len(entrada) = 2 /\ entrada[1] = "e"
    /\ Len(saida) = 3 /\ saida[1] = "EXTRATO"
    /\ DepositoESaque(saida[2])
    /\ saida[3] = 500

\* what a step of the session must satisfy for C9
C9_Step ==
    (log' = log + 1 /\ entrada'[1] \in {"d", "s", "e", "nc"} /\ Desconhecido(entrada'[2])) =>
        /\ saida' = <<"Cliente nao encontrado!">>
        /\ UNCHANGED <<clientes, contas>>

\* C9: a deposit, withdraw, statement or new-account action given a customer
\* identifier that no registered customer has reports "not found" and changes
\* neither the customers nor the accounts (balances and ledgers included).
C9_ClienteDesconhecido == [][C9_Step]_vars

\* a new account was asked for an unknown cpf while another customer owns an account
C9_Witness ==
    /\ Len(entrada) = 2 /\ entrada[1] = "nc"
    /\ saida = <<"Cliente nao encontrado!">>
    /\ Desconhecido(entrada[2])
    /\ Len(clientes) > 0 /\ Len(contas) > 0

\* what the loop prints for the conditions it recovers from
Recuperaveis ==
    {<<"Valor invalido!">>, <<"Saldo insuficiente!">>, <<"Cliente nao encontrado!">>,
     <<"Cliente nao possui conta!">>, <<"Limite de saque excedido!">>,
     <<"Limite de saques excedido!">>, <<"Limite diario de transacoes excedido!">>,
     <<"Opcao invalida!">>}

\* the loop ends in this step
Termina == pc = "menu" /\ pc' # "menu"

\* C10 as stated: after a recoverable condition the loop is still running, and
\* the loop terminates only when the option 'q' is entered.
C10_Original ==
    [][/\ saida' \in Recuperaveis => pc' = "menu"
       /\ Termina => entrada'[1] = "q"]_vars

\* what a step of the session must satisfy for C10
C10_Step ==
    /\ saida' \in Recuperaveis => pc' = "menu"
    /\ Termina =>
          \/ entrada'[1] = "q" /\ pc' = "fim"
          \/ /\ entrada'[1] \in {"d", "s"}
             /\ Len(entrada') = 3
             /\ ~Desconhecido(entrada'[2])
             /\ entrada'[3] \notin DOMAIN float
             /\ pc' = "ValueError"

\* C10 amended: after a recoverable condition the loop is still running; the
\* loop terminates only when the option 'q' is entered or when the line typed
\* as the amount of a deposit or withdrawal of a registered customer is not a
\* number (float raises ValueError, which nothing catches).
C10_SoTerminaComQ == [][C10_Step]_vars

\* the loop is back at the menu after a request of a customer without account
C10_Witness ==
    /\ pc = "menu"
    /\ Len(entrada) = 3 /\ entrada[1] = "s"
    /\ saida = <<"Cliente nao possui conta!">>

\* the step is an iteration of main's loop (not only the clock moving)
Iteracao == ~UNCHANGED <<clientes, contas, pc, entrada, saida, log, linha>>

\* the menu options whose handler is decorated with log_transacao, and its name
Decorados == {"d", "s", "e", "nu", "nc"}
NomeDe(op) == CASE op = "d" -> "depositar" [] op = "s" -> "sacar"
                [] op = "e" -> "exibir_extrato" [] op = "nu" -> "criar_cliente"
                [] op = "nc" -> "criar_conta"

\* the handler's arguments as they print once the step's effects are made
ArgsDepois(op) ==
    LET cs == [i \in 1..Len(clientes') |-> clientes'[i].cpf]
        ks == [i \in 1..Len(contas') |-> <<"0001", contas'[i].numero, contas'[i].cliente>>]
    IN  IF op = "nc" THEN <<Len(contas) + 1, cs, ks>> ELSE <<cs>>

\* what a step of the session must satisfy for C11
C11_Step ==
    /\ IF Iteracao /\ entrada'[1] \in Decorados /\ pc' = "menu"
       THEN /\ log' = log + 1
            /\ linha' = <<NomeDe(entrada'[1]), ArgsDepois(entrada'[1]), "None">>
       ELSE UNCHANGED <<log, linha>>
    /\ log' >= log

\* C11: every completed invocation of a decorated action appends exactly one
\* line to the audit log, written after the action returned (it shows the
\* customers and accounts with the action's effects made); no other step
\* touches the log and the log never loses lines.
C11_UmaLinhaPorChamada == [][C11_Step]_vars

\* the line of a successful criar_conta, appended to a log that had lines,
\* shows the account the call has just created
C11_Witness ==
    /\ log >= 3
    /\ Len(entrada) = 2 /\ entrada[1] = "nc"
    /\ saida = <<"Conta criada com sucesso!">>
    /\ linha[1] = "criar_conta"
    /\ Len(linha[2][3]) = Len(contas)
    /\ linha[2][3][Len(contas)][2] = linha[2][1]

\* the accounts, in the order of their creation, are numbered 1, 2, ...
C12_Inv == \A i \in 1..Len(contas) : contas[i].numero = i

\* what a step of the session must satisfy for C12: an account is only ever
\* added at the end of the list, by a new-account action
C12_Step ==
    \/ contas' = contas
    \/ /\ Len(contas') = Len(contas)
       /\ \A i \in 1..Len(contas) : contas'[i].numero = contas[i].numero
    \/ /\ Chamada("nc")
       /\ Len(contas') = Len(contas) + 1
       /\ \A i \in 1..Len(contas) : contas'[i] = contas[i]
       /\ contas'[Len(contas')].numero = Len(contas) + 1

\* C12: account numbers are unique and sequential: after any sequence of
\* new-account actions, rejected ones included, the k-th account created has
\* number k, and no two accounts share a number.
C12_NumerosSequenciais ==
    /\ [](C12_Inv /\ \A i, j \in 1..Len(contas) :
                        contas[i].numero = contas[j].numero => i = j)
    /\ [][C12_Step]_vars

\* a second account has just been created, for another customer than the first
C12_Witness ==
    /\ Len(entrada) = 2 /\ entrada[1] = "nc"
    /\ saida = <<"Conta criada com sucesso!">>
    /\ Len(contas) = 2
    /\ contas[2].numero = 2
    /\ contas[1].cliente # contas[2].cliente

\* what a step of the session must satisfy for C13
C13_Step ==
    /\ (Chamada("nu") /\ ~Desconhecido(entrada'[2])) =>
          /\ clientes' = clientes
          /\ saida' = <<"Cliente ja existe!">>
    /\ Len(clientes') >= Len(clientes)
    /\ \A i \in 1..Len(clientes) : clientes'[i].cpf = clientes[i].cpf

\* C13: customer identifiers are unique: a new-customer action with an
\* identifier already present leaves the customers unchanged, no two customers
\* ever share an identifier, and a registered customer is never removed.
C13_CpfUnico ==
    /\ [](\A i, j \in 1..Len(clientes) : clientes[i].cpf = clientes[j].cpf => i = j)
    /\ [][C13_Step]_vars

\* with two customers registered, a registration with a cpf in use was refused
C13_Witness ==
    /\ Len(entrada) = 2 /\ entrada[1] = "nu"
    /\ saida = <<"Cliente ja existe!">>
    /\ Len(clientes) = 2
    /\ \E i \in 1..Len(clientes) : clientes[i].cpf = entrada[2]

\* what a step of the session must satisfy for C14
C14_Step ==
    /\ Len(contas') >= Len(contas)
    /\ \A i \in 1..Len(contas) :
          LET antes == contas[i].transacoes
              depois == contas'[i].transacoes
          IN  /\ Len(depois) \in {Len(antes), Len(antes) + 1}
              /\ SubSeq(depois, 1, Len(antes)) = antes
    /\ Cardinality({i \in 1..Len(contas) :
                       contas'[i].transacoes # contas[i].transacoes}) <= 1
    /\ \A i \in (Len(contas) + 1)..Len(contas') : contas'[i].transacoes = <<>>

\* C14: each account's ledger is append-only: across any step the ledger
\* before is a prefix of the ledger after, and at most one entry is added.
C14_LedgerSoCresce == [][C14_Step]_vars

\* an entry has just been appended to a ledger that held two entries
C14_Witness ==
    /\ Len(entrada) = 3
    /\ saida \in {<<"Saque realizado com sucesso!">>, <<"Deposito realizado com sucesso!">>}
    /\ TemConta(entrada[2])
    /\ LET t == contas[ContaDe(entrada[2])].transacoes
       IN  /\ Len(t) = 3
           /\ t[3].valor = float[entrada[3]]
           /\ t[1].tipo # t[3].tipo

\* what a step of the session must satisfy for C15: a valid deposit is applied
\* on a day with fewer than 2 entries, also when an earlier day had its 2
C15_Step ==
    (Pedido("d") /\ ValorPedido > 0
       /\ NoDia(ContaPedido.transacoes, today) < 2
       /\ \E d \in 0..(today - 1) : NoDia(ContaPedido.transacoes, d) = 2) =>
        /\ Acrescentou(ContaPedido.transacoes, ContaPedidoDepois.transacoes,
                       "Deposito", ValorPedido)
        /\ ContaPedidoDepois.saldo = ContaPedido.saldo + ValorPedido

\* C15: for every account and every calendar date the ledger holds at most 2
\* entries of that date (the clock does not go backwards); the allowance is
\* per day: an account with 2 entries on one date accepts a valid deposit
\* again once the date has advanced.
C15_DoisPorDia ==
    /\ [](\A i \in 1..Len(contas) : \A d \in 0..MaxDay :
             NoDia(contas[i].transacoes, d) <= 2)
    /\ [][C15_Step]_vars

\* a deposit was applied on a day after a day that had its 2 entries
C15_Witness ==
    /\ Len(entrada) = 3 /\ entrada[1] = "d"
    /\ saida = <<"Deposito realizado com sucesso!">>
    /\ TemConta(entrada[2])
    /\ LET t == contas[ContaDe(entrada[2])].transacoes
       IN  /\ Len(t) = 3
           /\ t[1].data = t[2].data
           /\ t[3].data = strftime(today)
           /\ t[3].data # t[2].data

\* what a step of the session must satisfy for C16, when ContaCorrente.sacar is called
C16_Step ==
    Registra("s") =>
        LET acima == ValorPedido > ContaPedido.limite
            esgotado == Quantos(ContaPedido.transacoes, "Saque") >= ContaPedido.limite_saques
        IN  /\ acima => saida' = <<"Limite de saque excedido!">>
            /\ (~acima /\ esgotado) => saida' = <<"Limite de saques excedido!">>
            /\ saida' \in {<<"Valor invalido!">>, <<"Saldo insuficiente!">>} =>
                  ~acima /\ ~esgotado
            /\ (~acima /\ ~esgotado /\ ValorPedido <= 0) => saida' = <<"Valor invalido!">>
            /\ (~acima /\ ~esgotado /\ ValorPedido > 0 /\ ValorPedido > ContaPedido.saldo) =>
                  saida' = <<"Saldo insuficiente!">>

\* C16: in a checking-account withdrawal the limit check and then the cap
\* check come before the base checks: an amount above the limit is reported as
\* limit-exceeded whatever the cap and the balance, a reached cap (amount
\* within the limit) as cap-exceeded whatever the amount and the balance, and
\* invalid-amount and insufficient-balance only when neither of the two fails.
C16_OrdemDasValidacoes == [][C16_Step]_vars

\* a withdrawal of 0 on an account with 3 withdrawals was reported as cap-exceeded
C16_Witness ==
    /\ Len(entrada) = 3 /\ entrada[1] = "s" /\ entrada[3] = "0"
    /\ saida = <<"Limite de saques excedido!">>
    /\ TemConta(entrada[2])
    /\ Quantos(contas[ContaDe(entrada[2])].transacoes, "Saque") = 3

\* what a step of the session must satisfy for C17
C17_Step ==
    /\ (Registra("d") /\ ValorPedido <= 0) =>
          /\ ~Conta_depositar(ContaPedido, ValorPedido).ok
          /\ contas' = contas
          /\ saida' = <<"Valor invalido!">>
    /\ (Registra("s") /\ ValorPedido <= 0) =>
          /\ ~ContaCorrente_sacar(ContaPedido, ValorPedido).ok
          /\ contas' = contas
          /\ saida' \in {<<"Valor invalido!">>, <<"Limite de saques excedido!">>}
    /\ (Registra("d") /\ ValorPedido > 0) =>
          /\ Conta_depositar(ContaPedido, ValorPedido).ok
          /\ ContaPedidoDepois.saldo = ContaPedido.saldo + ValorPedido
          /\ saida' = <<"Deposito realizado com sucesso!">>

\* C17: a deposit or withdrawal of an amount <= 0 fails: the account returns
\* False, the balance is unchanged and no entry is appended; a deposit of an
\* amount > 0 always succeeds at the account and adds exactly that amount.
C17_ValorInvalido == [][C17_Step]_vars

\* a deposit of -1 was refused on an account that holds money
C17_Witness ==
    /\ Len(entrada) = 3 /\ entrada[1] = "d" /\ entrada[3] = "-1"
    /\ saida = <<"Valor invalido!">>
    /\ TemConta(entrada[2])
    /\ contas[ContaDe(entrada[2])].saldo > 0

\* C18: the session operates on the customer's first account only: every
\* account that is not the first of its owner keeps balance 0 and an empty
\* ledger in every reachable state.
C18_SoPrimeiraConta ==
    \A i \in 1..Len(clientes) : \A j \in 2..Len(clientes[i].contas) :
        LET c == contas[clientes[i].contas[j]]
        IN  c.saldo = 0 /\ c.transacoes = <<>>

\* a customer with two accounts has deposited and withdrawn
C18_Witness ==
    \E i \in 1..Len(clientes) :
        /\ Len(clientes[i].contas) = 2
        /\ Len(contas[clientes[i].contas[1]].transacoes) = 2
        /\ contas[clientes[i].contas[1]].saldo > 0

\* what the session prints when it rejects a transaction
Rejeicoes ==
    {<<"Valor invalido!">>, <<"Saldo insuficiente!">>, <<"Limite de saque excedido!">>,
     <<"Limite de saques excedido!">>}

\* what a step of the session must satisfy for C19
C19_Step ==
    /\ ((Registra("d") \/ Registra("s")) /\ saida' \in Rejeicoes) =>
          /\ contas' = contas
          /\ \A d \in 0..MaxDay : NoDia(ContaPedidoDepois.transacoes, d)
                                    = NoDia(ContaPedido.transacoes, d)
    /\ ((Registra("d") \/ Registra("s")) /\ saida' \notin Rejeicoes) =>
          Len(ContaPedidoDepois.transacoes) = Len(ContaPedido.transacoes) + 1
    /\ (Pedido("d") /\ ValorPedido > 0 /\ saida \in Rejeicoes
           /\ NoDia(ContaPedido.transacoes, today) < 2) =>
          /\ Acrescentou(ContaPedido.transacoes, ContaPedidoDepois.transacoes,
                         "Deposito", ValorPedido)
          /\ saida' = <<"Deposito realizado com sucesso!">>

\* C19: a rejected transaction does not consume the daily allowance: a failed
\* attempt (invalid amount, insufficient balance, limit or cap exceeded) on an
\* account with fewer than 2 entries dated today leaves the count of today's
\* entries unchanged, and the next valid deposit of that day is still applied.
C19_RejeicaoNaoConsome == [][C19_Step]_vars

\* 1500 was refused on an account with one entry today, which leaves one
C19_Witness ==
    /\ Len(entrada) = 3 /\ entrada[1] = "s" /\ entrada[3] = "1500"
    /\ saida = <<"Limite de saque excedido!">>
    /\ TemConta(entrada[2])
    /\ NoDia(contas[ContaDe(entrada[2])].transacoes, today) = 1

\* the places of account k in the customers' lists of accounts
Donos(k) == {p \in {<<i, j>> : i \in 1..Len(clientes), j \in 1..MaxContas + 1} :
                /\ p[2] <= Len(clientes[p[1]].contas)
                /\ clientes[p[1]].contas[p[2]] = k}

C20_Inv ==
    /\ \A k \in 1..Len(contas) :
          /\ Cardinality(Donos(k)) = 1
          /\ \A p \in Donos(k) : clientes[p[1]].cpf = contas[k].cliente
    /\ \A i \in 1..Len(clientes) : \A j \in 1..Len(clientes[i].contas) :
          clientes[i].contas[j] \in 1..Len(contas)

\* what a step of the session must satisfy for C20
C20_Step ==
    (Chamada("nc") /\ Desconhecido(entrada'[2])) => UNCHANGED <<clientes, contas>>

\* C20: every account belongs to exactly one customer and both directions
\* agree: each account of the list contas is exactly once in the accounts of
\* exactly one customer, who is its recorded owner, and every account of a
\* customer is in contas; a rejected new-account action changes neither list.
C20_UmDonoPorConta == []C20_Inv /\ [][C20_Step]_vars

\* two customers, one of them owning both accounts
C20_Witness ==
    /\ Len(clientes) = 2 /\ Len(contas) = 2
    /\ contas[1].cliente = contas[2].cliente
    /\ \E i \in 1..2 : clientes[i].contas = <<1, 2>>

====
